---- MODULE Spec2Model ----
(***************************************************************************)
(* A model of the UAP discovery client and action invoker                  *)
(* (src/agent/agent.py: uap_discover, uap_http) running against the        *)
(* example hotel provider (src/app/main.py) and against an arbitrary       *)
(* third-party service.                                                    *)
(*                                                                         *)
(* Strings are sequences of tokens.  A URL is a sequence whose first token *)
(* is an origin ("http://hotel", "http://other") when the URL is absolute; *)
(* "/" is a token of its own, so that stripping and doubling of slashes    *)
(* are visible.  A method is a sequence of word tokens ("get", "GET",      *)
(* "post", "POST") and blanks (" ").                                       *)
(*                                                                         *)
(* Specifications:                                                         *)
(*   Spec          one tool call, any arguments, either service            *)
(*   SpecTask      the agent's run: tool calls one after the other         *)
(*   SpecTimed     one tool call with the timer of its network operations  *)
(*   SpecConc      NumTasks tool calls whose steps interleave              *)
(*   SpecProvider  the provider alone, requests arriving in any order      *)
(***************************************************************************)
EXTENDS Integers, Sequences, FiniteSets, TLC

VARIABLES
    pc,           \* position of the running tool call
    tool,         \* "none" | "uap_discover" | "uap_http"
    args,         \* the arguments of the call, as passed
    client,       \* the call's httpx.Client: "none" | "open" | "closed"
    requests,     \* the HTTP requests the call has issued, in order
    root_resp,    \* what uap_discover read of the root response
    module_resp,  \* what uap_discover read of the module response
    http_resp,    \* what uap_http read of its response
    result,       \* the call's outcome: a returned value or a raised exception
    BOOKINGS,     \* the provider's booking store
    confirmed,    \* the user has given an explicit affirmative confirmation
    calls,        \* tool calls the agent has started in this task
    clock,        \* the wait of the running network operation, in time units
    entered,      \* the resolution states the call has entered so far
    parked        \* the local variables of the suspended concurrent calls

vars == <<pc, tool, args, client, requests, root_resp, module_resp, http_resp,
          result, BOOKINGS, confirmed, calls, clock, entered, parked>>

---------------------------------------------------------------------------
(* Bounds of the model *)

MaxBaseLen == 3
MaxMethodLen == 2
MaxModules == 2
MaxBookings == 2
MaxCalls == 3
MaxReads == 2
NumTasks == 2

\* httpx.Client(timeout=10.0): the longest wait of one network operation
TIMEOUT == 10

---------------------------------------------------------------------------
(* Token strings *)

SeqsUpTo(S, n) == UNION {[1..k -> S] : k \in 0..n}

HotelOrigin == "http://hotel"
OtherOrigin == "http://other"
Origins == {HotelOrigin, OtherOrigin}
Slash == "/"

\* str.rstrip("/"): every trailing "/" is removed
RECURSIVE RStrip(_)
RStrip(s) == IF s # <<>> /\ s[Len(s)] = Slash THEN RStrip(SubSeq(s, 1, Len(s) - 1)) ELSE s

\* the literal "/.well-known/uap" of the f-string
WellKnownPath == <<Slash, ".well-known/uap">>

\* f"{base_url}/.well-known/uap" after base_url = base_url.rstrip("/")
WellKnownUrl(base_url) == RStrip(base_url) \o WellKnownPath

\* httpx sends a request only to a URL with a scheme and a host
IsAbsolute(u) == u # <<>> /\ u[1] \in Origins

EndsWith(u, suffix) ==
    /\ Len(u) >= Len(suffix)
    /\ SubSeq(u, Len(u) - Len(suffix) + 1, Len(u)) = suffix

Contains(u, part) ==
    \E i \in 1..Len(u) :
        /\ i + Len(part) - 1 <= Len(u)
        /\ SubSeq(u, i, i + Len(part) - 1) = part

---------------------------------------------------------------------------
(* Documents and bodies *)

NoUrl == <<>>

\* the arguments an optional parameter defaults to (Python's None)
None == "<None>"

ModuleRef(id, href) == [id |-> id, href |-> href, has_href |-> TRUE]
ModuleRefNoHref(id) == [id |-> id, href |-> NoUrl, has_href |-> FALSE]

Action(id, method, href, confirm) ==
    [id |-> id, method |-> method, href |-> href, confirm |-> confirm]

\* the rule of the system prompt: "Actions that include `confirm: user`
\* require explicit user confirmation" (an absent member is None)
requiresConfirmation(action) == action.confirm = "user"

NoBooking ==
    [id |-> "", room_id |-> "", check_in |-> "", check_out |-> "",
     guest_name |-> "", status |-> ""]

\* a JSON value: an object or an array, with the members the programs read
EmptyObject ==
    [shape |-> "object", name |-> "", openapi |-> NoUrl, modules |-> <<>>,
     actions |-> <<>>, items |-> <<>>, booking |-> NoBooking, detail |-> ""]

EmptyArray == [EmptyObject EXCEPT !.shape = "array"]

NoDoc == [EmptyObject EXCEPT !.shape = "none"]

RootDoc(name, modules) == [EmptyObject EXCEPT !.name = name, !.modules = modules]

\* a response body: text that is or is not well-formed JSON
JsonBody(doc) == [wellformed |-> TRUE, doc |-> doc]
MalformedBody == [wellformed |-> FALSE, doc |-> NoDoc]
NoBody == [wellformed |-> FALSE, doc |-> [NoDoc EXCEPT !.name = "<no body>"]]

\* content-type header values; <<>> is an absent header
JsonType == <<"application/json">>
JsonCharsetType == <<"application/json", "; charset=utf-8">>
TextType == <<"text/plain">>
NoType == <<>>
ContentTypes == {NoType, JsonType, JsonCharsetType, TextType}

Response(status, ctype, body) == [status |-> status, ctype |-> ctype, body |-> body]
NoResponse == Response(0, NoType, NoBody)

---------------------------------------------------------------------------
(* The example provider, src/app/main.py *)

ROOMS == <<"room-101", "room-202", "room-303">>

IdNames == <<"b1", "b2", "b3", "b4", "b5">>
BookingIds == {IdNames[i] : i \in 1..MaxBookings}

BookingRequest(room_id) ==
    [room_id |-> room_id, check_in |-> "2024-01-01", check_out |-> "2024-01-02",
     guest_name |-> "A"]
NoPayload == BookingRequest(None)

WellKnownModulePath == <<Slash, ".well-known/booking.json">>
RoomsPath == <<Slash, "rooms">>
SearchPath == <<Slash, "rooms", Slash, "search">>
BookingsPath == <<Slash, "bookings">>
CancelPath(id) == <<Slash, "bookings", Slash, id, Slash, "cancel">>
BookingIdPlaceholder == "{booking_id}"

\* uap_root: the root document served for a request to base_url
uap_root(base_url) ==
    RootDoc("Example Hotel",
            <<ModuleRef("booking", base_url \o WellKnownModulePath)>>)

\* a module document whose cancel action carries no confirm member
booking_module_open_cancel(base_url) ==
    [EmptyObject EXCEPT
        !.name = "Booking",
        !.openapi = base_url \o <<Slash, "openapi.json">>,
        !.actions = <<
            Action("rooms.list", <<"GET">>, base_url \o RoomsPath, None),
            Action("rooms.search", <<"GET">>, base_url \o SearchPath, None),
            Action("booking.create", <<"POST">>, base_url \o BookingsPath, "user"),
            Action("booking.cancel", <<"POST">>,
                   base_url \o CancelPath(BookingIdPlaceholder), None) >>]

\* booking_module: the module document served for a request to base_url
booking_module(base_url) ==
    [EmptyObject EXCEPT
        !.name = "Booking",
        !.openapi = base_url \o <<Slash, "openapi.json">>,
        !.actions = <<
            Action("rooms.list", <<"GET">>, base_url \o RoomsPath, None),
            Action("rooms.search", <<"GET">>, base_url \o SearchPath, None),
            Action("booking.create", <<"POST">>, base_url \o BookingsPath, "user"),
            Action("booking.cancel", <<"POST">>,
                   base_url \o CancelPath(BookingIdPlaceholder), "user") >>]

list_rooms == [EmptyArray EXCEPT !.items = ROOMS]

HttpException(status, detail) ==
    Response(status, JsonType, JsonBody([EmptyObject EXCEPT !.detail = detail]))

Ok(doc) == Response(200, JsonType, JsonBody(doc))

Outcome(resp, store) == [resp |-> resp, store |-> store]

\* a handler that stores the booking before it looks for the room
create_booking_storing_first(payload, store) ==
    IF payload = NoPayload
    THEN {Outcome(HttpException(422, "Field required"), store)}
    ELSE {LET booking == [id |-> booking_id, room_id |-> payload.room_id,
                          check_in |-> payload.check_in,
                          check_out |-> payload.check_out,
                          guest_name |-> payload.guest_name,
                          status |-> "confirmed"]
              stored == (booking_id :> booking) @@ store
          IN  IF ~ \E i \in 1..Len(ROOMS) : ROOMS[i] = payload.room_id
              THEN Outcome(HttpException(404, "Room not found"), stored)
              ELSE Outcome(Ok([EmptyObject EXCEPT !.booking = booking]), stored)
          : booking_id \in BookingIds \ DOMAIN store}

\* create_booking: the outcomes of POST /bookings, one per fresh uuid
create_booking(payload, store) ==
    IF payload = NoPayload
    THEN {Outcome(HttpException(422, "Field required"), store)}
    ELSE IF ~ \E i \in 1..Len(ROOMS) : ROOMS[i] = payload.room_id
    THEN {Outcome(HttpException(404, "Room not found"), store)}
    ELSE {LET booking == [id |-> booking_id, room_id |-> payload.room_id,
                          check_in |-> payload.check_in,
                          check_out |-> payload.check_out,
                          guest_name |-> payload.guest_name,
                          status |-> "confirmed"]
          IN  Outcome(Ok([EmptyObject EXCEPT !.booking = booking]),
                      (booking_id :> booking) @@ store)
          : booking_id \in BookingIds \ DOMAIN store}

\* a handler that deletes the booking it cancels
cancel_booking_removing(booking_id, store) ==
    IF booking_id \notin DOMAIN store
    THEN {Outcome(HttpException(404, "Booking not found"), store)}
    ELSE {LET updated == [store[booking_id] EXCEPT !.status = "canceled"]
          IN  Outcome(Ok([EmptyObject EXCEPT !.booking = updated]),
                      [id \in DOMAIN store \ {booking_id} |-> store[id]])}

\* cancel_booking: the outcome of POST /bookings/{booking_id}/cancel
cancel_booking(booking_id, store) ==
    IF booking_id \notin DOMAIN store
    THEN {Outcome(HttpException(404, "Booking not found"), store)}
    ELSE {LET updated == [store[booking_id] EXCEPT !.status = "canceled"]
          IN  Outcome(Ok([EmptyObject EXCEPT !.booking = updated]),
                      [store EXCEPT ![booking_id] = updated])}

IsCancelPath(path) ==
    /\ Len(path) = 6
    /\ path = CancelPath(path[4])

\* the application's routing table: the handler of a method and a path
Provider(req, store) ==
    LET path == Tail(req.url)
        base_url == <<Head(req.url)>>
        route(method, outcomes) ==
            IF req.method = method THEN outcomes
            ELSE {Outcome(HttpException(405, "Method Not Allowed"), store)}
    IN  IF path = WellKnownPath
        THEN route(<<"GET">>, {Outcome(Ok(uap_root(base_url)), store)})
        ELSE IF path = WellKnownModulePath
        THEN route(<<"GET">>, {Outcome(Ok(booking_module(base_url)), store)})
        ELSE IF path = RoomsPath \/ path = SearchPath
        THEN route(<<"GET">>, {Outcome(Ok(list_rooms), store)})
        ELSE IF path = BookingsPath
        THEN route(<<"POST">>, create_booking(req.json, store))
        ELSE IF IsCancelPath(path)
        THEN route(<<"POST">>, cancel_booking(path[4], store))
        ELSE {Outcome(HttpException(404, "Not Found"), store)}

---------------------------------------------------------------------------
(* Any other service: it may answer a request with any status, any         *)
(* content type and any of these bodies.                                   *)

OtherModuleHref == <<OtherOrigin, Slash, "spa.json">>
RelativeHref == <<Slash, "spa.json">>

OtherRefs ==
    {ModuleRef("booking", OtherModuleHref), ModuleRef("booking", RelativeHref),
     ModuleRef("spa", OtherModuleHref), ModuleRef("spa", RelativeHref),
     ModuleRef("", OtherModuleHref), ModuleRefNoHref("booking")}

OtherRootDocs == {RootDoc("X", mods) : mods \in SeqsUpTo(OtherRefs, MaxModules)}

OtherModuleDoc ==
    [EmptyObject EXCEPT
        !.name = "Spa",
        !.openapi = <<OtherOrigin, Slash, "openapi.json">>,
        !.actions = <<Action("spa.book", <<"POST">>,
                             <<OtherOrigin, Slash, "spa">>, "user"),
                      Action("spa.hours", <<"GET">>,
                             <<OtherOrigin, Slash, "spa">>, "none")>>]

RootBodies == {MalformedBody, JsonBody(EmptyArray)} \cup {JsonBody(d) : d \in OtherRootDocs}
GenericBodies == {MalformedBody, JsonBody(EmptyArray), JsonBody(OtherModuleDoc)}

Statuses == {200, 404, 500}

OtherService(req, store) ==
    {Outcome(Response(status, ctype, body), store) :
        status \in Statuses, ctype \in ContentTypes,
        body \in IF EndsWith(req.url, WellKnownPath) THEN RootBodies ELSE GenericBodies}

\* what may answer a request: nothing answers a URL without scheme and host
Serve(req, store) ==
    IF ~ IsAbsolute(req.url) THEN {}
    ELSE IF Head(req.url) = HotelOrigin THEN Provider(req, store)
    ELSE OtherService(req, store)

---------------------------------------------------------------------------
(* The client's helpers, src/agent/agent.py *)

Request(method, url, json, params) ==
    [method |-> method, url |-> url, json |-> json, params |-> params]

Get(url) == Request(<<"GET">>, url, NoPayload, None)

\* a client that repeats each request once
SendTwice(sent, req) == Append(Append(sent, req), req)

\* client.get / client.request: one request per call of the method
Send(sent, req) == Append(sent, req)

\* a response whose status is never examined
NeverRaises(status) == FALSE

\* Response.raise_for_status raises for an error status
raise_for_status(status) == status >= 400

\* a test against the empty string alone
IsNotEmpty(arg) == arg # ""

\* Python's truth value of an optional string argument
Given(arg) == arg # None /\ arg # ""

\* next((mod for mod in modules if mod.get("id") == module_id), None):
\* the index of the first match, 0 when there is none
FirstMatch(modules, module_id) ==
    IF \E i \in 1..Len(modules) : modules[i].id = module_id
    THEN CHOOSE i \in 1..Len(modules) :
            /\ modules[i].id = module_id
            /\ \A j \in 1..(i - 1) : modules[j].id # module_id
    ELSE 0

\* the ids in reverse document order
ReversedIds(modules) == [i \in 1..Len(modules) |-> modules[Len(modules) + 1 - i].id]

\* [mod.get("id") for mod in modules]
ModuleIds(modules) == [i \in 1..Len(modules) |-> modules[i].id]

\* an href resolved against the base URL when it is relative
ResolvedHref(base_url, href) ==
    IF IsAbsolute(href) THEN href ELSE RStrip(base_url) \o href

\* the URL of the module fetch: client.get(module["href"])
ModuleUrl(base_url, href) == href

\* content_type == "application/json"
ExactJsonType(content_type) == content_type = <<"application/json">>

\* "application/json" in content_type
ContentTypeIsJson(content_type) ==
    \E i \in 1..Len(content_type) : content_type[i] = "application/json"

\* str.upper and str.strip on a method
UpperWord(w) ==
    CASE w = "get" -> "GET"
      [] w = "post" -> "POST"
      [] OTHER -> w

Upper(m) == [i \in 1..Len(m) |-> UpperWord(m[i])]

RECURSIVE LStrip(_)
LStrip(m) == IF m # <<>> /\ Head(m) = " " THEN LStrip(Tail(m)) ELSE m

RECURSIVE RStripBlank(_)
RStripBlank(m) ==
    IF m # <<>> /\ m[Len(m)] = " " THEN RStripBlank(SubSeq(m, 1, Len(m) - 1)) ELSE m

Strip(m) == RStripBlank(LStrip(m))

\* method.upper() without the strip
UpperOnly(m) == Upper(m)

\* method.upper().strip()
NormalizeMethod(m) == Strip(Upper(m))

\* the outcome of a call: a returned value or a raised exception
NoResult ==
    [exc |-> "none", form |-> "pending", value |-> NoDoc, module |-> NoDoc,
     module_id |-> None, module_ids |-> <<>>, text |-> NoBody,
     status |-> 0, body |-> NoBody]

Raise(exc) == [NoResult EXCEPT !.exc = exc, !.form = "exception"]

\* httpx.HTTPStatusError carries the response
HTTPStatusError(resp) ==
    [Raise("HTTPStatusError") EXCEPT !.status = resp.status, !.body = resp.body]

\* json.dumps(root_doc, indent=2)
ReturnRoot(root_doc) == [NoResult EXCEPT !.form = "root", !.value = root_doc]

\* json.dumps({"uap": root_doc, "module": module_doc}, indent=2)
ReturnBoth(root_doc, module_doc) ==
    [NoResult EXCEPT !.form = "both", !.value = root_doc, !.module = module_doc]

\* f"Module '{module_id}' not found. Available modules: {module_ids}."
ReturnNotFound(module_id, module_ids) ==
    [NoResult EXCEPT !.form = "not_found", !.module_id = module_id,
                     !.module_ids = module_ids]

\* json.dumps(resp.json(), indent=2)
ReturnJson(doc) == [NoResult EXCEPT !.form = "json", !.value = doc]

\* resp.text
ReturnText(body) == [NoResult EXCEPT !.form = "text", !.text = body]

---------------------------------------------------------------------------
(* The arguments the caller may pass *)

BaseUrls == SeqsUpTo({HotelOrigin, OtherOrigin, Slash}, MaxBaseLen)
ModuleIdArgs == {None, "", "booking", "spa", "gym"}
Methods == SeqsUpTo({"get", "GET", "post", " "}, MaxMethodLen)
InvokeUrls ==
    {NoUrl,
     <<HotelOrigin>> \o RoomsPath,
     <<HotelOrigin>> \o BookingsPath,
     <<HotelOrigin>> \o CancelPath(BookingIdPlaceholder),
     <<HotelOrigin>> \o CancelPath("b1"),
     <<OtherOrigin, Slash, "spa">>}
JsonBodies == {NoPayload, BookingRequest("room-101"), BookingRequest("room-999")}
QueryParams == {None, "guests=2"}

NoArgs ==
    [base_url |-> NoUrl, module_id |-> None, method |-> <<>>, url |-> NoUrl,
     json_body |-> NoPayload, params |-> None]

\* the timer of a network operation: time waited since the operation began
\* or last made progress, and the partial reads of the response so far
ClockStart == [waited |-> 0, reads |-> 0]

---------------------------------------------------------------------------
(* The state after construction: no call is running, the store is empty *)

Init ==
    /\ pc = "idle"
    /\ tool = "none"
    /\ args = NoArgs
    /\ client = "none"
    /\ requests = <<>>
    /\ root_resp = NoResponse
    /\ module_resp = NoResponse
    /\ http_resp = NoResponse
    /\ result = NoResult
    /\ BOOKINGS = <<>>
    /\ confirmed = FALSE
    /\ calls = 0
    /\ clock = ClockStart
    /\ entered = {}
    /\ parked = <<>>

\* uap_discover reads the status and the body of a response, never a header
StatusAndBody(resp) == Response(resp.status, NoType, resp.body)

\* a transport failure may come before the request reaches the service or
\* after the service has handled it (the 10 s timeout while reading)
StoreAfterFailure(req, store) == {store} \cup {out.store : out \in Serve(req, store)}

\* a step records the states it enters; a new call starts its own record
Record(seen, pc_before, states) ==
    (IF pc_before = "idle" THEN {} ELSE seen) \cup states

\* the resolution states a step of a call enters, by the position it leaves
\* and the position and outcome it reaches
EnteredBy(pc_before, pc_after, outcome) ==
    IF pc_before = "returned" THEN {}
    ELSE IF pc_after = "root_wait" THEN {"Start"}
    ELSE IF pc_after = "module_wait" THEN {"RootFetched", "ModuleSelected"}
    ELSE IF pc_after = "http_wait" THEN {"ActionResolved", "Invoked"}
    ELSE IF pc_before = "idle" THEN {}
    ELSE IF outcome.exc = "TransportError" THEN {"NetworkFailed"}
    ELSE IF outcome.exc = "HTTPStatusError" THEN {"HttpFailed"}
    ELSE IF outcome.exc # "none" THEN {"ProtocolFailed"}
    ELSE IF outcome.form = "root" THEN {"RootFetched"}
    ELSE IF outcome.form = "not_found" THEN {"RootFetched", "ModuleNotFound"}
    ELSE IF outcome.form = "both" THEN {}
    ELSE {"Done"}

\* what every step of the running call does besides: the timer of its network
\* operation restarts, the states it enters are recorded, and the suspended
\* calls keep their local variables
CallStep ==
    /\ clock' = ClockStart
    /\ entered' = Record(entered, pc, EnteredBy(pc, pc', result'))
    /\ UNCHANGED parked

\* a call that ends without closing its client (no with block)
FinishLeavingOpen(outcome) ==
    /\ pc' = "returned"
    /\ result' = outcome
    /\ UNCHANGED client

\* the call ends: the with block has released the client, the outcome is known
Finish(outcome) ==
    /\ pc' = "returned"
    /\ result' = outcome
    /\ client' = "closed"

---------------------------------------------------------------------------
(* uap_discover(base_url, module_id) *)

\* lines 27-32: the argument check, the client, the root GET
DiscoverCall(base_url, module_id) ==
    /\ pc = "idle"
    /\ calls < MaxCalls
    /\ calls' = calls + 1
    /\ tool' = "uap_discover"
    /\ args' = [NoArgs EXCEPT !.base_url = base_url, !.module_id = module_id]
    /\ IF base_url = <<>>
       THEN /\ pc' = "returned"
            /\ result' = Raise("ValueError")
            /\ UNCHANGED <<client, requests>>
       ELSE /\ pc' = "root_wait"
            /\ client' = "open"
            /\ requests' = Send(requests, Get(WellKnownUrl(base_url)))
            /\ UNCHANGED result
    /\ UNCHANGED <<root_resp, module_resp, http_resp, BOOKINGS, confirmed>>
    /\ CallStep

\* the transport fails (no connection, no scheme, a timeout): client.get raises
RootTransportError ==
    /\ pc = "root_wait"
    /\ Finish(Raise("TransportError"))
    /\ BOOKINGS' \in StoreAfterFailure(requests[Len(requests)], BOOKINGS)
    /\ UNCHANGED <<tool, args, requests, root_resp, module_resp, http_resp,
                   confirmed, calls>>
    /\ CallStep

\* a lookup that fetches the root document again when the module is missing
SelectModuleRetrying(root_doc) ==
    LET module_id == args.module_id
        modules == root_doc.modules
        found == FirstMatch(modules, module_id)
    IN  IF root_doc.shape # "object"
        THEN Finish(Raise("AttributeError")) /\ UNCHANGED requests
        ELSE IF found = 0
        THEN /\ pc' = "root_wait"
             /\ requests' = Send(requests, Get(WellKnownUrl(args.base_url)))
             /\ UNCHANGED <<result, client>>
        ELSE IF ~ modules[found].has_href
        THEN Finish(Raise("KeyError")) /\ UNCHANGED requests
        ELSE /\ pc' = "module_wait"
             /\ requests' = Send(requests, Get(ModuleUrl(args.base_url, modules[found].href)))
             /\ UNCHANGED <<result, client>>

\* lines 39-47 once the root document is parsed and a module id is given
SelectModule(root_doc) ==
    LET module_id == args.module_id
        modules == root_doc.modules
        found == FirstMatch(modules, module_id)
    IN  IF root_doc.shape # "object"
        THEN Finish(Raise("AttributeError")) /\ UNCHANGED requests
        ELSE IF found = 0
        THEN /\ Finish(ReturnNotFound(module_id, ModuleIds(modules)))
             /\ UNCHANGED requests
        ELSE IF ~ modules[found].has_href
        THEN Finish(Raise("KeyError")) /\ UNCHANGED requests
        ELSE /\ pc' = "module_wait"
             /\ requests' = Send(requests, Get(ModuleUrl(args.base_url, modules[found].href)))
             /\ UNCHANGED <<result, client>>

\* lines 32-47: the root response arrives
RootResponse ==
    /\ pc = "root_wait"
    /\ \E out \in Serve(requests[Len(requests)], BOOKINGS) :
        /\ BOOKINGS' = out.store
        /\ root_resp' = StatusAndBody(out.resp)
        /\ IF raise_for_status(out.resp.status)
           THEN Finish(HTTPStatusError(out.resp)) /\ UNCHANGED requests
           ELSE IF ~ out.resp.body.wellformed
           THEN Finish(Raise("JSONDecodeError")) /\ UNCHANGED requests
           ELSE IF ~ Given(args.module_id)
           THEN Finish(ReturnRoot(out.resp.body.doc)) /\ UNCHANGED requests
           ELSE SelectModule(out.resp.body.doc)
    /\ UNCHANGED <<tool, args, module_resp, http_resp, confirmed, calls>>
    /\ CallStep

ModuleTransportError ==
    /\ pc = "module_wait"
    /\ Finish(Raise("TransportError"))
    /\ BOOKINGS' \in StoreAfterFailure(requests[Len(requests)], BOOKINGS)
    /\ UNCHANGED <<tool, args, requests, root_resp, module_resp, http_resp,
                   confirmed, calls>>
    /\ CallStep

\* lines 47-51: the module response arrives
ModuleResponse ==
    /\ pc = "module_wait"
    /\ \E out \in Serve(requests[Len(requests)], BOOKINGS) :
        /\ BOOKINGS' = out.store
        /\ module_resp' = StatusAndBody(out.resp)
        /\ IF raise_for_status(out.resp.status)
           THEN Finish(HTTPStatusError(out.resp))
           ELSE IF ~ out.resp.body.wellformed
           THEN Finish(Raise("JSONDecodeError"))
           ELSE Finish(ReturnBoth(root_resp.body.doc, out.resp.body.doc))
    /\ UNCHANGED <<tool, args, requests, root_resp, http_resp, confirmed, calls>>
    /\ CallStep

---------------------------------------------------------------------------
(* uap_http(method, url, json_body, params) *)

\* lines 61-66: the argument check, the normalisation, the client, the request
HttpCall(method, url, json_body, params) ==
    /\ pc = "idle"
    /\ calls < MaxCalls
    /\ calls' = calls + 1
    /\ tool' = "uap_http"
    /\ args' = [NoArgs EXCEPT !.method = method, !.url = url,
                              !.json_body = json_body, !.params = params]
    /\ IF method = <<>> \/ url = <<>>
       THEN /\ pc' = "returned"
            /\ result' = Raise("ValueError")
            /\ UNCHANGED <<client, requests>>
       ELSE /\ pc' = "http_wait"
            /\ client' = "open"
            /\ requests' = Send(requests, Request(NormalizeMethod(method), url,
                                                  json_body, params))
            /\ UNCHANGED result
    /\ UNCHANGED <<root_resp, module_resp, http_resp, BOOKINGS, confirmed>>
    /\ CallStep

HttpTransportError ==
    /\ pc = "http_wait"
    /\ Finish(Raise("TransportError"))
    /\ BOOKINGS' \in StoreAfterFailure(requests[Len(requests)], BOOKINGS)
    /\ UNCHANGED <<tool, args, requests, root_resp, module_resp, http_resp,
                   confirmed, calls>>
    /\ CallStep

\* lines 66-72: the response arrives
HttpResponse ==
    /\ pc = "http_wait"
    /\ \E out \in Serve(requests[Len(requests)], BOOKINGS) :
        /\ BOOKINGS' = out.store
        /\ http_resp' = out.resp
        /\ IF raise_for_status(out.resp.status)
           THEN Finish(HTTPStatusError(out.resp))
           ELSE IF ContentTypeIsJson(out.resp.ctype)
           THEN IF out.resp.body.wellformed
                THEN Finish(ReturnJson(out.resp.body.doc))
                ELSE Finish(Raise("JSONDecodeError"))
           ELSE Finish(ReturnText(out.resp.body))
    /\ UNCHANGED <<tool, args, requests, root_resp, module_resp, confirmed, calls>>
    /\ CallStep

---------------------------------------------------------------------------
(* One tool call, with any arguments, against the two services *)

Discover == \E base_url \in BaseUrls, module_id \in ModuleIdArgs :
                DiscoverCall(base_url, module_id)

Invoke == \E method \in Methods, url \in InvokeUrls,
             json_body \in JsonBodies, params \in QueryParams :
                HttpCall(method, url, json_body, params)

OneCall == calls = 0

Next ==
    \/ OneCall /\ Discover
    \/ RootTransportError
    \/ RootResponse
    \/ ModuleTransportError
    \/ ModuleResponse
    \/ OneCall /\ Invoke
    \/ HttpTransportError
    \/ HttpResponse

Spec == Init /\ [][Next]_vars

---------------------------------------------------------------------------
(* A resolution task of the agent, main() and build_agent(): one user      *)
(* query, then the tool calls the language model chooses, one after the    *)
(* other, against the provider at UAP_BASE_URL.  The model chooses freely  *)
(* among the advertised URLs; the user's only message is the query, which  *)
(* may or may not carry an explicit confirmation.                          *)

UAP_BASE_URL == <<HotelOrigin>>

TaskModuleIds == {None, "booking"}
TaskMethods == {<<"GET">>, <<"POST">>, <<"post">>}
TaskUrls ==
    {booking_module(UAP_BASE_URL).actions[i].href :
        i \in 1..Len(booking_module(UAP_BASE_URL).actions)}
    \cup {UAP_BASE_URL \o CancelPath(id) : id \in BookingIds}
TaskBodies == {NoPayload, BookingRequest("room-101")}

InitTask ==
    /\ pc = "idle"
    /\ tool = "none"
    /\ args = NoArgs
    /\ client = "none"
    /\ requests = <<>>
    /\ root_resp = NoResponse
    /\ module_resp = NoResponse
    /\ http_resp = NoResponse
    /\ result = NoResult
    /\ BOOKINGS = <<>>
    /\ confirmed \in BOOLEAN
    /\ calls = 0
    /\ clock = ClockStart
    /\ entered = {}
    /\ parked = <<>>

AgentDiscovers == \E module_id \in TaskModuleIds : DiscoverCall(UAP_BASE_URL, module_id)

AgentInvokes == \E method \in TaskMethods, url \in TaskUrls, json_body \in TaskBodies :
                    HttpCall(method, url, json_body, None)

\* the tool's outcome goes back to the language model, which may call again
AgentObserves ==
    /\ pc = "returned"
    /\ pc' = "idle"
    /\ tool' = "none"
    /\ args' = NoArgs
    /\ client' = "none"
    /\ requests' = <<>>
    /\ root_resp' = NoResponse
    /\ module_resp' = NoResponse
    /\ http_resp' = NoResponse
    /\ result' = NoResult
    /\ UNCHANGED <<BOOKINGS, confirmed, calls>>
    /\ CallStep

NextTask ==
    \/ AgentDiscovers
    \/ RootTransportError
    \/ RootResponse
    \/ ModuleTransportError
    \/ ModuleResponse
    \/ AgentInvokes
    \/ HttpTransportError
    \/ HttpResponse
    \/ AgentObserves

SpecTask == InitTask /\ [][NextTask]_vars

---------------------------------------------------------------------------
(* One tool call with its timer.  Every network operation of the client    *)
(* waits at most TIMEOUT time units: time passes while the call waits, a   *)
(* partial read of the response starts the wait anew, and an operation     *)
(* that has waited TIMEOUT ends with httpx.TimeoutException, a             *)
(* TransportError.                                                         *)

Waiting == pc \in {"root_wait", "module_wait", "http_wait"}

\* one time unit passes while the operation waits
Tick ==
    /\ Waiting
    /\ clock.waited < TIMEOUT
    /\ clock' = [clock EXCEPT !.waited = @ + 1]
    /\ UNCHANGED <<pc, tool, args, client, requests, root_resp, module_resp,
                   http_resp, result, BOOKINGS, confirmed, calls, entered, parked>>

\* a part of the response arrives before the wait is over
PartialRead ==
    /\ Waiting
    /\ clock.waited < TIMEOUT
    /\ clock.reads < MaxReads
    /\ clock' = [waited |-> 0, reads |-> clock.reads + 1]
    /\ UNCHANGED <<pc, tool, args, client, requests, root_resp, module_resp,
                   http_resp, result, BOOKINGS, confirmed, calls, entered, parked>>

\* a client without a timeout (timeout=None)
NeverTimedOut(waited) == FALSE

\* timeout=10.0: the operation has waited as long as it may
TimedOut(waited) == waited >= TIMEOUT

\* the wait is over: client.get / client.request raises, the with block exits
ReadTimeout ==
    /\ Waiting
    /\ TimedOut(clock.waited)
    /\ Finish(Raise("TransportError"))
    /\ BOOKINGS' \in StoreAfterFailure(requests[Len(requests)], BOOKINGS)
    /\ entered' = Record(entered, pc, EnteredBy(pc, pc', result'))
    /\ UNCHANGED <<tool, args, requests, root_resp, module_resp, http_resp,
                   confirmed, calls, clock, parked>>

NextTimed ==
    \/ OneCall /\ AgentDiscovers
    \/ RootTransportError
    \/ RootResponse
    \/ ModuleTransportError
    \/ ModuleResponse
    \/ OneCall /\ AgentInvokes
    \/ HttpTransportError
    \/ HttpResponse
    \/ Tick
    \/ PartialRead
    \/ ReadTimeout

\* time does not stop, and the client raises when the wait is over
SpecTimed == Init /\ [][NextTimed]_vars /\ WF_vars(Tick) /\ WF_vars(ReadTimeout)

---------------------------------------------------------------------------
(* Concurrent calls.  NumTasks tasks make one tool call each against the   *)
(* provider; their steps interleave in any order.  The variables of the    *)
(* running call are pc .. result, clock and entered; the calls that are    *)
(* suspended keep theirs in parked.  Everything a call names is a          *)
(* parameter or a local variable of the function, its client included      *)
(* (with httpx.Client(...) as client); only the provider's store is        *)
(* common to the calls.                                                    *)

Locals ==
    [pc |-> pc, tool |-> tool, args |-> args, client |-> client,
     requests |-> requests, root_resp |-> root_resp, module_resp |-> module_resp,
     http_resp |-> http_resp, result |-> result, clock |-> clock,
     entered |-> entered]

IdleLocals ==
    [pc |-> "idle", tool |-> "none", args |-> NoArgs, client |-> "none",
     requests |-> <<>>, root_resp |-> NoResponse, module_resp |-> NoResponse,
     http_resp |-> NoResponse, result |-> NoResult, clock |-> ClockStart,
     entered |-> {}]

\* calls that keep the response they read in a variable of the module
ResumeSharingResponse(saved) == [saved EXCEPT !.http_resp = http_resp]

\* a call that resumes finds its local variables as it left them
Resume(saved) == saved

\* the running call is suspended and the i-th suspended call runs on
Switch(i) ==
    /\ i \in DOMAIN parked
    /\ parked' = [parked EXCEPT ![i] = Locals]
    /\ LET mine == Resume(parked[i])
       IN  /\ pc' = mine.pc
           /\ tool' = mine.tool
           /\ args' = mine.args
           /\ client' = mine.client
           /\ requests' = mine.requests
           /\ root_resp' = mine.root_resp
           /\ module_resp' = mine.module_resp
           /\ http_resp' = mine.http_resp
           /\ result' = mine.result
           /\ clock' = mine.clock
           /\ entered' = mine.entered
    /\ UNCHANGED <<BOOKINGS, confirmed, calls>>

ConcModuleIds == {None, "booking", "gym"}
ConcUrls == {UAP_BASE_URL \o BookingsPath, UAP_BASE_URL \o CancelPath("b1")}

InitConc ==
    /\ pc = "idle"
    /\ tool = "none"
    /\ args = NoArgs
    /\ client = "none"
    /\ requests = <<>>
    /\ root_resp = NoResponse
    /\ module_resp = NoResponse
    /\ http_resp = NoResponse
    /\ result = NoResult
    /\ BOOKINGS = <<>>
    /\ confirmed = TRUE
    /\ calls = 0
    /\ clock = ClockStart
    /\ entered = {}
    /\ parked = [i \in 1..(NumTasks - 1) |-> IdleLocals]

ConcDiscover == \E module_id \in ConcModuleIds : DiscoverCall(UAP_BASE_URL, module_id)

ConcInvoke == \E url \in ConcUrls :
                  HttpCall(<<"POST">>, url, BookingRequest("room-101"), None)

Interleave == \E i \in DOMAIN parked : Switch(i)

NextConc ==
    \/ ConcDiscover
    \/ RootTransportError
    \/ RootResponse
    \/ ModuleTransportError
    \/ ModuleResponse
    \/ ConcInvoke
    \/ HttpTransportError
    \/ HttpResponse
    \/ Interleave

SpecConc == InitConc /\ [][NextConc]_vars

---------------------------------------------------------------------------
(* The provider on its own: requests of any client arrive in any order.    *)
(* requests holds the request the application handled last, http_resp the  *)
(* response it gave.                                                       *)

ProviderBodies ==
    {NoPayload, BookingRequest("room-101"), BookingRequest("room-202"),
     BookingRequest("room-999")}
CancelIds == BookingIds \cup {"b0", BookingIdPlaceholder}
ReadPaths == {WellKnownPath, WellKnownModulePath, RoomsPath, SearchPath}
UnroutedRequests ==
    {Request(<<"GET">>, UAP_BASE_URL \o BookingsPath, NoPayload, None),
     Request(<<"GET">>, UAP_BASE_URL \o CancelPath("b1"), NoPayload, None),
     Request(<<"POST">>, UAP_BASE_URL \o RoomsPath, NoPayload, None),
     Request(<<"GET">>, UAP_BASE_URL \o <<Slash, "nowhere">>, NoPayload, None)}

\* the variables of the agent's tools, which the application never touches
CallVars == <<pc, tool, args, client, root_resp, module_resp, result,
              confirmed, calls, clock, entered, parked>>

\* the application routes the request to its handler and answers
Handle(req) ==
    \E out \in Provider(req, BOOKINGS) :
        /\ requests' = <<req>>
        /\ http_resp' = out.resp
        /\ BOOKINGS' = out.store

\* POST /bookings
CreateBooking ==
    \E payload \in ProviderBodies :
        /\ Handle(Request(<<"POST">>, UAP_BASE_URL \o BookingsPath, payload, None))
        /\ UNCHANGED CallVars

\* POST /bookings/{booking_id}/cancel
CancelBooking ==
    \E booking_id \in CancelIds :
        /\ Handle(Request(<<"POST">>, UAP_BASE_URL \o CancelPath(booking_id),
                          NoPayload, None))
        /\ UNCHANGED CallVars

\* GET of a document or of the rooms
ReadRequest ==
    \E path \in ReadPaths :
        /\ Handle(Request(<<"GET">>, UAP_BASE_URL \o path, NoPayload, None))
        /\ UNCHANGED CallVars

\* a request no handler is registered for
UnroutedRequest ==
    \E req \in UnroutedRequests :
        /\ Handle(req)
        /\ UNCHANGED CallVars

NextProvider ==
    \/ CreateBooking
    \/ CancelBooking
    \/ ReadRequest
    \/ UnroutedRequest

SpecProvider == Init /\ [][NextProvider]_vars

---------------------------------------------------------------------------
(* Vocabulary of the properties *)

DiscoverReturned == tool = "uap_discover" /\ pc = "returned"
HttpReturned == tool = "uap_http" /\ pc = "returned"

Success(resp) == resp.status >= 200 /\ resp.status <= 299
ErrorStatus(resp) == resp.status >= 400 /\ resp.status <= 599

\* the root fetch succeeded and gave a JSON object
RootFetched ==
    /\ tool = "uap_discover"
    /\ Success(root_resp)
    /\ root_resp.body.wellformed
    /\ root_resp.body.doc.shape = "object"

ServedModules == root_resp.body.doc.modules

Matches(module_id) == {i \in 1..Len(ServedModules) : ServedModules[i].id = module_id}

\* the entry a lookup by id selects: the first one in document order
Selected(module_id) == CHOOSE i \in Matches(module_id) : \A j \in Matches(module_id) : i <= j

IsRootGet(req) ==
    /\ req.method = <<"GET">>
    /\ EndsWith(req.url, WellKnownPath)

\* a base URL with every trailing "/" removed
IsStrippedOf(stem, base_url) ==
    /\ Len(stem) <= Len(base_url)
    /\ SubSeq(base_url, 1, Len(stem)) = stem
    /\ \A i \in (Len(stem) + 1)..Len(base_url) : base_url[i] = Slash
    /\ (stem = <<>> \/ stem[Len(stem)] # Slash)

\* the failure types of the design
ErrorType(exc) ==
    CASE exc = "ValueError" -> "InvalidArgument"
      [] exc = "TransportError" -> "NetworkError"
      [] exc = "HTTPStatusError" -> "HttpError"
      [] exc = "JSONDecodeError" -> "ProtocolError"
      [] OTHER -> "untyped"

---------------------------------------------------------------------------
(* C1  The confirmation gate *)

MatchesHref(url, href) ==
    /\ Len(url) = Len(href)
    /\ \A k \in 1..Len(href) : href[k] = url[k] \/ href[k] = BookingIdPlaceholder

\* the request goes to the endpoint of an action whose confirm field is "user"
Gated(req) ==
    /\ IsAbsolute(req.url)
    /\ \E i \in 1..Len(booking_module(<<Head(req.url)>>).actions) :
        LET action == booking_module(<<Head(req.url)>>).actions[i]
        IN  /\ action.confirm = "user"
            /\ req.method = action.method
            /\ MatchesHref(req.url, action.href)

DispatchesGated ==
    /\ tool' = "uap_http"
    /\ Len(requests') > Len(requests)
    /\ Gated(requests'[Len(requests')])

\* C1: in every run of a resolution task no HTTP request is dispatched by
\* uap_http to the endpoint of an action whose confirm field is "user"
\* unless an explicit affirmative user confirmation occurred earlier in the
\* same task; the provider's booking.create and booking.cancel endpoints
\* are never reached, and BOOKINGS never changes, without a preceding
\* confirmation.
C1_ConfirmationGate ==
    /\ [][DispatchesGated => confirmed]_vars
    /\ [][BOOKINGS' # BOOKINGS => confirmed]_vars

---------------------------------------------------------------------------
(* C2  Module lookup miss *)

ModuleNotFoundResult ==
    /\ result.exc = "none"
    /\ result.form = "not_found"
    /\ Len(result.module_ids) = Len(ServedModules)
    /\ \A i \in 1..Len(ServedModules) : result.module_ids[i] = ServedModules[i].id
    /\ Len(requests) = 1
    /\ IsRootGet(requests[1])
    /\ module_resp = NoResponse

\* C2 as stated: for every root document and every module id that matches no
\* entry of root.modules, discover returns ModuleNotFound (no exception)
\* carrying exactly the ids of root.modules in document order, and the only
\* HTTP request made is the root GET.  Fails for the module id "": the code
\* treats the empty string as an omitted module id and returns the root.
C2_Original ==
    (DiscoverReturned /\ RootFetched /\ args.module_id # None
        /\ Matches(args.module_id) = {})
    => ModuleNotFoundResult

\* C2 amended: the same for every non-empty module id that matches no entry.
C2_ModuleNotFound ==
    (DiscoverReturned /\ RootFetched /\ args.module_id \notin {None, ""}
        /\ Matches(args.module_id) = {})
    => ModuleNotFoundResult

C2_Witness ==
    /\ DiscoverReturned /\ RootFetched
    /\ args.module_id = "gym"
    /\ result.form = "not_found"
    /\ result.module_ids = <<"booking", "spa">>

---------------------------------------------------------------------------
(* C3  Module fetch *)

HasModule ==
    /\ RootFetched
    /\ args.module_id # None
    /\ Matches(args.module_id) # {}
    /\ ServedModules[Selected(args.module_id)].has_href

\* the order of the two fetches and what the call returns, for the module
\* URL the call is to fetch
ModuleFetchedFrom(module_url) ==
    /\ pc \in {"module_wait", "returned"}
    /\ Len(requests) = 2
    /\ IsRootGet(requests[1])
    /\ requests[2] = Get(module_url)
    /\ (pc = "returned" /\ Success(module_resp) /\ module_resp.body.wellformed)
        => /\ result.exc = "none"
           /\ result.form = "both"
           /\ result.value = root_resp.body.doc
           /\ result.module = module_resp.body.doc

\* no module request is issued before the root fetch has succeeded
ModuleFetchAfterRoot ==
    (tool = "uap_discover" /\ Len(requests) >= 2)
    => (Success(root_resp) /\ root_resp.body.wellformed /\ IsRootGet(requests[1]))

---------------------------------------------------------------------------
(* C4  Root only *)

\* C4: when moduleId is omitted, discover returns the root document alone,
\* with its module ids exactly as served, after exactly one GET (the
\* well-known root fetch) and with no module document fetched.
C4_RootOnly ==
    (tool = "uap_discover" /\ args.module_id = None /\ args.base_url # <<>>)
    => /\ Len(requests) = 1
       /\ IsRootGet(requests[1])
       /\ module_resp = NoResponse
       /\ (pc = "returned" /\ Success(root_resp) /\ root_resp.body.wellformed)
            => /\ result.exc = "none"
               /\ result.form = "root"
               /\ result.module = NoDoc
               /\ result.value = root_resp.body.doc
               /\ ModuleIds(result.value.modules) = ModuleIds(ServedModules)

C4_Witness ==
    /\ DiscoverReturned
    /\ args.module_id = None
    /\ result.form = "root"
    /\ Len(result.value.modules) = 2
    /\ result.value.modules[1].id # result.value.modules[2].id

---------------------------------------------------------------------------
(* C5  The well-known URL *)

DoubleSlashWellKnown == <<Slash>> \o WellKnownPath

\* the root GET goes to stem + "/.well-known/uap", stem being the base URL
\* without its trailing slashes
RootUrlFrom(stem) ==
    /\ requests # <<>>
    /\ requests[1] = Get(stem \o WellKnownPath)
    /\ IsStrippedOf(stem, args.base_url)
    /\ ~ Contains(requests[1].url, DoubleSlashWellKnown)

\* C5: for every baseURL, discover either rejects it as InvalidArgument
\* without any HTTP request (when it is empty) or issues the root GET to the
\* baseURL with its trailing slash stripped followed by "/.well-known/uap";
\* the requested URL never contains "//.well-known/uap" and is never built
\* from an empty base.
C5_WellKnownUrl ==
    tool = "uap_discover" =>
        IF args.base_url = <<>>
        THEN /\ requests = <<>>
             /\ pc = "returned"
             /\ ErrorType(result.exc) = "InvalidArgument"
        ELSE \E k \in 0..Len(args.base_url) :
                LET stem == SubSeq(args.base_url, 1, k)
                IN  RootUrlFrom(stem) /\ stem # <<>>

---------------------------------------------------------------------------
(* C6  Failures of discover *)

HasNoDocument(r) == r.value = NoDoc /\ r.module = NoDoc /\ r.module_ids = <<>>

\* what a fetched document must be: a well-formed JSON object whose module
\* entries carry an href
ExpectedShape(body) ==
    /\ body.wellformed
    /\ body.doc.shape = "object"
    /\ \A i \in 1..Len(body.doc.modules) : body.doc.modules[i].has_href

\* C6: every failure of discover is returned to the caller as a typed
\* result: NetworkError on transport failure, HttpError{status} when a
\* document response has a 4xx/5xx status, ProtocolError when the body is
\* not valid JSON of the expected document shape; after a failed root fetch
\* no module fetch is attempted and no partial result is returned.
C6_TypedFailures ==
    DiscoverReturned =>
        /\ result.exc # "none" =>
              /\ ErrorType(result.exc) \in
                    {"InvalidArgument", "NetworkError", "HttpError", "ProtocolError"}
              /\ HasNoDocument(result)
        /\ (root_resp # NoResponse /\ ErrorStatus(root_resp)) =>
              /\ ErrorType(result.exc) = "HttpError"
              /\ result.status = root_resp.status
              /\ Len(requests) = 1
        /\ (Success(root_resp) /\ ~ ExpectedShape(root_resp.body)) =>
              /\ ErrorType(result.exc) = "ProtocolError"
              /\ Len(requests) = 1
        /\ (module_resp # NoResponse /\ ErrorStatus(module_resp)) =>
              /\ ErrorType(result.exc) = "HttpError"
              /\ result.status = module_resp.status
        /\ (Success(module_resp) /\ ~ module_resp.body.wellformed) =>
              ErrorType(result.exc) = "ProtocolError"

---------------------------------------------------------------------------
(* C7  No retries *)

Rejected == pc = "returned" /\ result.exc = "ValueError"

\* C7: the core never retries: each invoke call performs exactly one HTTP
\* request (zero when its arguments are rejected), and each discover call
\* performs at most one root GET and at most one module GET, whatever the
\* responses are.
C7_NoRetry ==
    /\ tool = "uap_http" =>
          /\ Len(requests) = (IF Rejected THEN 0 ELSE 1)
    /\ tool = "uap_discover" =>
          /\ Len(requests) <= 2
          /\ Cardinality({i \in 1..Len(requests) : IsRootGet(requests[i])}) <= 1
          /\ Cardinality({i \in 1..Len(requests) : ~ IsRootGet(requests[i])}) <= 1
          /\ (module_resp = NoResponse /\ pc # "module_wait" /\ result.exc # "TransportError")
                => Len(requests) <= 1
          /\ Rejected => requests = <<>>

C7_Witness ==
    /\ HttpReturned
    /\ http_resp.status = 500
    /\ Len(requests) = 1

---------------------------------------------------------------------------
(* C8  Error status of invoke *)

\* C8: when the endpoint answers invoke with an error status (4xx/5xx),
\* invoke yields HttpError carrying that status and the response body, not
\* a generic exception, and returns no partial result (neither parsed JSON
\* nor response text).
C8_HttpError ==
    (HttpReturned /\ http_resp # NoResponse /\ ErrorStatus(http_resp))
    => /\ result.exc = "HTTPStatusError"
       /\ ErrorType(result.exc) = "HttpError"
       /\ result.status = http_resp.status
       /\ result.body = http_resp.body
       /\ result.form = "exception"
       /\ result.value = NoDoc
       /\ result.text = NoBody

C8_Witness ==
    /\ HttpReturned
    /\ Len(requests) = 1
    /\ requests[1].url = <<HotelOrigin>> \o BookingsPath
    /\ http_resp.status = 404
    /\ result.status = 404
    /\ result.body.doc.detail = "Room not found"

---------------------------------------------------------------------------
(* C9  Result of a successful invoke *)

\* the content types that indicate JSON
IndicatesJson(ctype) == ctype \in {JsonType, JsonCharsetType}

\* C9 as stated: on a successful response the result of invoke is the parsed
\* JSON value when the response content-type indicates JSON, and the raw
\* response text otherwise (including when the header is absent); the two
\* branches are exclusive and exhaustive over successful responses.  Fails
\* for a JSON content type with a body that is not JSON.
C9_Original ==
    (HttpReturned /\ Success(http_resp))
    => IF IndicatesJson(http_resp.ctype)
       THEN /\ result.exc = "none"
            /\ result.form = "json"
            /\ result.value = http_resp.body.doc
            /\ result.text = NoBody
       ELSE /\ result.exc = "none"
            /\ result.form = "text"
            /\ result.text = http_resp.body
            /\ result.value = NoDoc

\* C9 amended: with a JSON content type the result is the parsed JSON value
\* when the body parses, and a raised JSON decode error with no result when
\* it does not; with any other or no content type it is the raw text.
C9_JsonOrText ==
    (HttpReturned /\ Success(http_resp))
    => IF IndicatesJson(http_resp.ctype)
       THEN IF http_resp.body.wellformed
            THEN /\ result.exc = "none"
                 /\ result.form = "json"
                 /\ result.value = http_resp.body.doc
                 /\ result.text = NoBody
            ELSE /\ result.exc = "JSONDecodeError"
                 /\ result.value = NoDoc
                 /\ result.text = NoBody
       ELSE /\ result.exc = "none"
            /\ result.form = "text"
            /\ result.text = http_resp.body
            /\ result.value = NoDoc

C9_Witness ==
    /\ HttpReturned
    /\ Success(http_resp)
    /\ http_resp.ctype = JsonCharsetType
    /\ result.form = "json"
    /\ result.value = OtherModuleDoc

---------------------------------------------------------------------------
(* C10  Method normalisation *)

Blank == " "

\* the letter case of a method word does not matter
SameWord(v, w) ==
    \/ v = w
    \/ {v, w} = {"get", "GET"}
    \/ {v, w} = {"post", "POST"}

\* m and n differ only in letter case and surrounding whitespace
SameMethod(m, n) ==
    \E i \in 1..(Len(m) + 1), j \in 1..(Len(n) + 1) :
        \E len \in 0..Len(m) :
            /\ i + len - 1 <= Len(m)
            /\ j + len - 1 <= Len(n)
            /\ \A k \in 1..Len(m) : (k < i \/ k >= i + len) => m[k] = Blank
            /\ \A k \in 1..Len(n) : (k < j \/ k >= j + len) => n[k] = Blank
            /\ \A k \in 0..(len - 1) : SameWord(m[i + k], n[j + k])

IsNormal(m) ==
    /\ \A k \in 1..Len(m) : m[k] \notin {"get", "post"}
    /\ m # <<>> => (m[1] # Blank /\ m[Len(m)] # Blank)

\* C10: invoke fails with InvalidArgument, without dispatching any HTTP
\* request, when method or url is empty; otherwise the method is uppercased
\* and trimmed before dispatch, so two calls whose methods differ only in
\* letter case or surrounding whitespace dispatch the same request and give
\* the same result against the same endpoint (a service answers a request
\* by what the request is, so equal requests have the same answers).
C10_MethodNormalized ==
    tool = "uap_http" =>
        IF args.method = <<>> \/ args.url = <<>>
        THEN /\ pc = "returned"
             /\ ErrorType(result.exc) = "InvalidArgument"
             /\ requests = <<>>
        ELSE /\ Len(requests) = 1
             /\ IsNormal(requests[1].method)
             /\ SameMethod(args.method, requests[1].method)
             /\ requests[1].url = args.url
             /\ requests[1].json = args.json_body
             /\ requests[1].params = args.params
             /\ \A other \in IF pc = "http_wait" THEN Methods \ {<<>>} ELSE {} :
                    SameMethod(args.method, other) =>
                        Request(NormalizeMethod(other), args.url,
                                args.json_body, args.params) = requests[1]

C10_Witness ==
    /\ tool = "uap_http"
    /\ pc = "http_wait"
    /\ args.method = <<Blank, "get">>
    /\ requests[1].method = <<"GET">>

---------------------------------------------------------------------------
(* C11: requiresConfirmation(action) is true exactly when the action's     *)
(* confirm member is "user", and false when the member is absent or has    *)
(* another value; of the actions in the provider's booking module document *)
(* it holds for booking.create and booking.cancel and for no other.        *)

ActionsOf(doc) == {doc.actions[i] : i \in 1..Len(doc.actions)}

GatedIds(doc) == {a.id : a \in {b \in ActionsOf(doc) : requiresConfirmation(b)}}

UngatedIds(doc) == {a.id : a \in {b \in ActionsOf(doc) : ~requiresConfirmation(b)}}

\* the call has fetched the provider's booking module document
BookingModuleFetched ==
    /\ DiscoverReturned
    /\ result.form = "both"
    /\ Len(requests) = 2
    /\ requests[2].url = <<HotelOrigin>> \o WellKnownModulePath

---------------------------------------------------------------------------
(* C12: a URL that still holds an unresolved placeholder such as           *)
(* {booking_id} is never the URL of a request; a uap_http call with such a *)
(* URL fails with InvalidArgument and issues no request.                   *)

HasPlaceholder(url) == \E k \in 1..Len(url) : url[k] = BookingIdPlaceholder

C12_NoPlaceholderSent ==
    /\ \A k \in 1..Len(requests) : ~HasPlaceholder(requests[k].url)
    /\ (HttpReturned /\ HasPlaceholder(args.url)) =>
           /\ ErrorType(result.exc) = "InvalidArgument"
           /\ requests = <<>>

---------------------------------------------------------------------------
(* C17: every request a uap_http call sends carries a non-empty method:    *)
(* whatever the method argument, a blank one included, the call is either  *)
(* rejected before any request or sends a non-empty normalized method.     *)

C17_NonEmptyMethod ==
    tool = "uap_http" =>
        /\ \A k \in 1..Len(requests) : requests[k].method # <<>>
        /\ requests = <<>> \/ NormalizeMethod(args.method) # <<>>

---------------------------------------------------------------------------
(* C13: every call that waits for the network eventually returns: no       *)
(* network operation waits longer than the timeout, and a call whose last  *)
(* request was never answered ends with a NetworkError.                    *)

\* the call has returned and no response to its last request was read
Unanswered ==
    /\ pc = "returned"
    /\ requests # <<>>
    /\ \/ tool = "uap_discover" /\ Len(requests) = 1 /\ root_resp = NoResponse
       \/ tool = "uap_discover" /\ Len(requests) = 2 /\ module_resp = NoResponse
       \/ tool = "uap_http" /\ http_resp = NoResponse

---------------------------------------------------------------------------
(* C14: concurrent calls share no client-side state.  The outcome of a     *)
(* call, and the requests it sends, are determined by its own arguments    *)
(* and the responses it has read, whatever the other calls do in between;  *)
(* a step of one call changes no variable of another call, and a call      *)
(* that resumes finds its variables as it left them.                       *)

AllLocals == {Locals} \cup {parked[i] : i \in DOMAIN parked}

SameInputs(a, b) ==
    /\ a.tool = b.tool
    /\ a.args = b.args
    /\ a.root_resp = b.root_resp
    /\ a.module_resp = b.module_resp
    /\ a.http_resp = b.http_resp

Deterministic ==
    \A a, b \in AllLocals :
        (a.pc = "returned" /\ b.pc = "returned" /\ SameInputs(a, b)) =>
            /\ a.result = b.result
            /\ a.requests = b.requests

Isolated ==
    \/ parked' = parked
    \/ \E i \in DOMAIN parked :
           /\ Locals' = parked[i]
           /\ parked' = [parked EXCEPT ![i] = Locals]

C14_NoSharedState == []Deterministic /\ [][Isolated]_vars

\* two calls with the same arguments have interleaved and read different
\* responses: each has the outcome of its own response
C14_Witness ==
    /\ pc = "returned"
    /\ parked[1].pc = "returned"
    /\ tool = "uap_http"
    /\ SameInputs(Locals, [parked[1] EXCEPT !.http_resp = http_resp])
    /\ http_resp # parked[1].http_resp
    /\ result # parked[1].result
    /\ Success(http_resp)
    /\ Success(parked[1].http_resp)

---------------------------------------------------------------------------
(* C15: the resolution states are entered in the order Start, RootFetched, *)
(* ModuleSelected or ModuleNotFound, ActionResolved, Invoked, Done, or a   *)
(* failure state: no state is entered twice, none after a later one, and   *)
(* none after a failure state.                                             *)

FailureStates == {"NetworkFailed", "ProtocolFailed", "ActionNotFound", "HttpFailed"}

Rank(state) ==
    CASE state = "Start" -> 0
      [] state = "RootFetched" -> 1
      [] state \in {"ModuleSelected", "ModuleNotFound"} -> 2
      [] state = "ActionResolved" -> 3
      [] state = "Invoked" -> 4
      [] state = "Done" -> 5
      [] OTHER -> 6

\* the states a step enters are new and lie after all the states in before
ForwardFrom(before, states) ==
    \A s \in states :
        /\ s \notin before
        /\ \A e \in before : Rank(e) < Rank(s) /\ e \notin FailureStates

---------------------------------------------------------------------------
(* C16: the client a call opens is released when the call completes, on    *)
(* every path: a normal return, the root-only and module-not-found         *)
(* returns, an HTTP error status, a transport failure, malformed JSON.  A  *)
(* call holds an open client exactly while it waits for a response of its  *)
(* own request; before the call there is no client, after it none is open. *)

\* the paths on which a call that opened a client has completed
CompletedPaths ==
    {"root", "both", "not_found", "json", "text",
     "HTTPStatusError", "TransportError", "JSONDecodeError"}

PathTaken == IF result.exc # "none" THEN result.exc ELSE result.form

C16_ClientReleased ==
    /\ pc = "idle" => client = "none"
    /\ Waiting => client = "open" /\ requests # <<>>
    /\ pc = "returned" =>
           /\ client # "open"
           /\ client = "closed" <=> requests # <<>>
           /\ PathTaken \in CompletedPaths => client = "closed"

\* the client is closed after a response that is not JSON was parsed
C16_Witness ==
    /\ pc = "returned"
    /\ PathTaken = "JSONDecodeError"
    /\ client = "closed"
    /\ Len(requests) = 2

---------------------------------------------------------------------------
(* C18: a request the provider answers with an error status leaves the     *)
(* booking store as it was; create_booking with a room_id that is no room  *)
(* answers 404 and adds no booking, cancel_booking with an id that is not  *)
(* in BOOKINGS answers 404 and neither adds nor alters a booking.          *)

IsCreate(req) == req.method = <<"POST">> /\ Tail(req.url) = BookingsPath

IsCancel(req) == req.method = <<"POST">> /\ IsCancelPath(Tail(req.url))

IsRoom(room_id) == \E i \in 1..Len(ROOMS) : ROOMS[i] = room_id

\* the step handles a request in the way the claim describes
FailureKeepsStore ==
    requests' # <<>> =>
        LET req == requests'[1]
        IN  /\ ErrorStatus(http_resp') => BOOKINGS' = BOOKINGS
            /\ (IsCreate(req) /\ req.json # NoPayload /\ ~IsRoom(req.json.room_id)) =>
                   http_resp'.status = 404 /\ BOOKINGS' = BOOKINGS
            /\ (IsCancel(req) /\ req.url[5] \notin DOMAIN BOOKINGS) =>
                   http_resp'.status = 404 /\ BOOKINGS' = BOOKINGS

C18_FailureKeepsStore == [][FailureKeepsStore]_vars

\* a cancel of an unknown id was answered 404 while the store held a booking
C18_Witness ==
    /\ requests = <<Request(<<"POST">>, UAP_BASE_URL \o CancelPath("b0"),
                            NoPayload, None)>>
    /\ http_resp = HttpException(404, "Booking not found")
    /\ BOOKINGS # <<>>

---------------------------------------------------------------------------
(* C19: every stored booking is kept under its own id with status          *)
(* "confirmed" or "canceled"; no request removes a booking or makes a      *)
(* canceled booking confirmed again; a cancel of a stored booking succeeds *)
(* and changes nothing but the status of that booking, so the cancel of a  *)
(* canceled booking leaves the store as it was.                            *)

StoreWellFormed ==
    \A id \in DOMAIN BOOKINGS :
        /\ BOOKINGS[id].id = id
        /\ BOOKINGS[id].status \in {"confirmed", "canceled"}

StoreStep ==
    /\ DOMAIN BOOKINGS \subseteq DOMAIN BOOKINGS'
    /\ \A id \in DOMAIN BOOKINGS :
           BOOKINGS[id].status = "canceled" => BOOKINGS'[id].status = "canceled"
    /\ (requests' # <<>> /\ IsCancel(requests'[1])
           /\ requests'[1].url[5] \in DOMAIN BOOKINGS) =>
           LET id == requests'[1].url[5]
           IN  /\ http_resp'.status = 200
               /\ BOOKINGS' = [BOOKINGS EXCEPT ![id].status = "canceled"]
               /\ BOOKINGS[id].status = "canceled" => BOOKINGS' = BOOKINGS

C19_StoreInvariants == []StoreWellFormed /\ [][StoreStep]_vars

\* a booking was canceled while another one stays confirmed
C19_Witness ==
    \E id \in DOMAIN BOOKINGS, other \in DOMAIN BOOKINGS :
        /\ requests = <<Request(<<"POST">>, UAP_BASE_URL \o CancelPath(id),
                                NoPayload, None)>>
        /\ http_resp.status = 200
        /\ BOOKINGS[id].status = "canceled"
        /\ BOOKINGS[other].status = "confirmed"

====
